---- MODULE Spec2Model ----
(***************************************************************************)
(* value_ptr<T, H>: a smart pointer with value semantics.                  *)
(*                                                                         *)
(* The model follows src/src/value_ptr.hpp.  A handle is the tuple         *)
(* c = (pointer, handler); the heap is a set of objects, each identified   *)
(* by the address its allocation returned (an address stands for one       *)
(* allocation: the allocator is not modelled as handing a freed address    *)
(* out again).  Every member function is an operator on a machine state S  *)
(* (the handles, the heap, the value returned, the exception in flight and *)
(* the trace of handler calls), composed the way the code composes them;   *)
(* an action runs one whole call of the client program.                    *)
(***************************************************************************)
EXTENDS Integers, Sequences, FiniteSets, TLC

\* ---- bounds -------------------------------------------------------------
NumHandles == 2      \* value_ptr objects of the client program
MaxAddr    == 3      \* allocations the heap can serve
MaxVal     == 1      \* pointee contents are 0..MaxVal
MaxHandler == 1      \* handler objects are told apart by a tag 0..MaxHandler
MaxCalls   == 2      \* destroy calls counted per address (saturating)
NumExt     == 2      \* auto_ptr, unique_ptr, shared_ptr and weak_ptr objects

\* ---- program constants --------------------------------------------------
Null           == 0  \* nullptr / pointer_type()
Tmp            == 0  \* the automatic object `tmp` of the copy assignments
DefaultHandler == 0  \* handler_type()
Threw          == -1 \* "result" of a handler call that left by exception
Locked         == 0  \* the temporary shared_ptr `p.lock()` of the weak_ptr constructors
DefaultDelete  == -2 \* std::default_delete<T2>, the deleter of a std::unique_ptr<T2>

Handles    == 1..NumHandles
Slots      == 0..NumHandles
Addrs      == 1..MaxAddr
Pointers   == 0..MaxAddr
Values     == 0..MaxVal
HandlerIds == 0..MaxHandler
Exts       == 1..NumExt
ExtSlots   == 0..NumExt

VARIABLES
  live,        \* live[h]: h is constructed and not yet destroyed
  ty,          \* T of every handle, a value_ptr<T, H>
  ptr,         \* std::get<0>(c) of every handle
  hnd,         \* std::get<1>(c) of every handle
  st,          \* heap: "unused", "live" or "destroyed", per address
  val,         \* heap: content of the object at an address
  dcount,      \* number of destroy calls an address was passed to
  nalloc,      \* allocations served so far
  owned,       \* addresses handed back to the caller by release()
  terminated,  \* std::terminate() was called
  last,        \* the call that produced this state, with its handler calls
  trait,       \* the last compile-time evaluation: a trait or a static_assert
  arr,         \* the heap of the default handlers, and their last call
  ext,         \* the standard smart pointers of the client: kind and get()
  abi          \* the blocks of the ABI adapter, and its last call

vars == <<live, ty, ptr, hnd, st, val, dcount, nalloc, owned, terminated, last,
          trait, arr, ext, abi>>

\* the variables of the value_ptr objects, their heap and the standard smart
\* pointers on it
hvars == <<live, ty, ptr, hnd, st, val, dcount, nalloc, owned, terminated, last,
           ext>>

\* the client has no standard smart pointer yet
NoExt == [kind |-> [e \in Exts |-> "none"], ptr |-> [e \in Exts |-> Null]]

\* nothing was evaluated at compile time yet
NoTrait == [op |-> "none"]

\* no block was allocated and no handler was called yet
NoArrays ==
  [blk |-> << >>, op |-> "none", kind |-> "none", shape |-> "none", p |-> Null,
   pre |-> << >>, ret |-> Null, ev |-> << >>, exc |-> FALSE, term |-> FALSE,
   ub |-> FALSE]

\* the ABI adapter was not called yet
NoAbi ==
  [blk |-> << >>, op |-> "none", T |-> [size |-> 1, align |-> 1, trivial |-> TRUE],
   b |-> 0, n |-> 0, ret |-> 0, exc |-> FALSE, ub |-> FALSE]

\* the instantiations of the client program: class Derived : public Base
Types == {"Base", "Derived"}

\* enable_if_compatible<T2>: a T2* converts to pointer_type, a T*
enable_if_compatible(T, T2) == T2 = T \/ T = "Base"

\* enable_if_different<T2>: the templated overloads serve the other instantiations
enable_if_different(T, T2) == T2 # T

\* ---- the machine state the member functions work on ----------------------
Machine ==
  [live |-> [s \in Slots |-> IF s = Tmp THEN FALSE ELSE live[s]],
   ptr  |-> [s \in Slots |-> IF s = Tmp THEN Null ELSE ptr[s]],
   hnd  |-> [s \in Slots |-> IF s = Tmp THEN DefaultHandler ELSE hnd[s]],
   st |-> st, val |-> val, dcount |-> dcount, nalloc |-> nalloc,
   owned |-> owned, ret |-> Null, exc |-> FALSE, term |-> FALSE,
   calls |-> << >>]

Call(f, h, p, r) == [f |-> f, h |-> h, p |-> p, r |-> r]

\* ---- handler ------------------------------------------------------------
\* H::destroy(p): delete p (nothing to delete for nullptr)
destroy(S, h, p) ==
  [S EXCEPT !.calls = Append(@, Call("destroy", h, p, Null)),
            !.st = IF p = Null THEN @ ELSE [@ EXCEPT ![p] = "destroyed"],
            !.val = IF p = Null THEN @ ELSE [@ EXCEPT ![p] = 0],
            !.dcount = IF p = Null THEN @
                       ELSE [@ EXCEPT ![p] = IF @ < MaxCalls THEN @ + 1 ELSE @]]

\* replicate that hands back the object it was given instead of a new one
replicate_shallow(S, h, p, fails) ==
  [S EXCEPT !.ret = p, !.calls = Append(@, Call("replicate", h, p, p))]

\* H::replicate(p): nullptr for nullptr, else new T{*p}; fails is TRUE when
\* the allocation or the copy constructor throws
replicate(S, h, p, fails) ==
  IF p = Null
    THEN [S EXCEPT !.ret = Null,
                   !.calls = Append(@, Call("replicate", h, p, Null))]
  ELSE IF fails \/ S.nalloc >= MaxAddr
    THEN [S EXCEPT !.exc = TRUE,
                   !.calls = Append(@, Call("replicate", h, p, Threw))]
  ELSE LET a == S.nalloc + 1 IN
       [S EXCEPT !.ret = a, !.nalloc = a,
                 !.st = [@ EXCEPT ![a] = "live"],
                 !.val = [@ EXCEPT ![a] = S.val[p]],
                 !.calls = Append(@, Call("replicate", h, p, a))]

\* ---- value_ptr members --------------------------------------------------
get(S, h) == S.ptr[h]

get_handler(S, h) == S.hnd[h]

\* the "master" constructor: c{p, std::forward<H2>(h)}
master_ctor(S, h, p, hid) ==
  [S EXCEPT !.live = [@ EXCEPT ![h] = TRUE],
            !.ptr = [@ EXCEPT ![h] = p],
            !.hnd = [@ EXCEPT ![h] = hid]]

\* release that leaves the pointer in the handle
release_keeping(S, h) == [S EXCEPT !.ret = S.ptr[h]]

\* release that destroys what it hands back
release_destroying(S, h) ==
  [destroy(S, S.hnd[h], S.ptr[h]) EXCEPT !.ret = S.ptr[h],
                                         !.ptr = [@ EXCEPT ![h] = Null]]

\* release(): old = get(); std::get<0>(c) = nullptr; return old
release(S, h) ==
  [S EXCEPT !.ret = S.ptr[h], !.ptr = [@ EXCEPT ![h] = Null]]

\* reset that destroys and then forgets to store the new pointer
reset_not_storing(S, h, p) ==
  IF p # get(S, h) THEN destroy(S, get_handler(S, h), get(S, h)) ELSE S

\* reset without the test p != get()
reset_unguarded(S, h, p) ==
  LET D == destroy(S, get_handler(S, h), get(S, h)) IN
  [D EXCEPT !.ptr = [@ EXCEPT ![h] = p]]

\* reset(p): if (p != get()) { get_handler().destroy(get()); std::get<0>(c) = p; }
reset(S, h, p) ==
  IF p # get(S, h)
    THEN LET D == destroy(S, get_handler(S, h), get(S, h)) IN
         [D EXCEPT !.ptr = [@ EXCEPT ![h] = p]]
    ELSE S

\* swap that exchanges the handlers and forgets the pointers
swap_handlers_only(S, a, b) ==
  [S EXCEPT !.hnd = [@ EXCEPT ![a] = S.hnd[b], ![b] = S.hnd[a]]]

\* swap(other): swap(c, other.c)
swap(S, a, b) ==
  [S EXCEPT !.ptr = [@ EXCEPT ![a] = S.ptr[b], ![b] = S.ptr[a]],
            !.hnd = [@ EXCEPT ![a] = S.hnd[b], ![b] = S.hnd[a]]]

\* destructor that lets go of the pointer without destroying it
dtor_leaking(S, h) ==
  [S EXCEPT !.live = [@ EXCEPT ![h] = FALSE],
            !.ptr = [@ EXCEPT ![h] = Null],
            !.hnd = [@ EXCEPT ![h] = DefaultHandler]]

\* ~value_ptr(): reset(); the object is gone afterwards
dtor(S, h) ==
  LET R == reset(S, h, Null) IN
  [R EXCEPT !.live = [@ EXCEPT ![h] = FALSE],
            !.hnd = [@ EXCEPT ![h] = DefaultHandler]]

\* a noexcept function left by an exception calls std::terminate()
noexcept(S) == IF S.exc THEN [S EXCEPT !.term = TRUE] ELSE S

\* value_ptr(value_ptr const &other) noexcept, and its templated twin:
\* value_ptr{other.get_handler().replicate(other.get()), other.get_handler(), nullptr}
copy_ctor(S, b, a, fails) ==
  LET R == noexcept(replicate(S, get_handler(S, a), get(S, a), fails)) IN
  IF R.term THEN R ELSE master_ctor(R, b, R.ret, get_handler(R, a))

\* move constructor that replicates instead of releasing
move_ctor_copying(S, b, a) == copy_ctor(S, b, a, FALSE)

\* value_ptr(value_ptr &&other) noexcept, and its templated twin:
\* value_ptr{other.release(), std::move(other.get_handler()), nullptr}
move_ctor(S, b, a) ==
  LET R == release(S, a) IN master_ctor(R, b, R.ret, get_handler(R, a))

\* null assignment that lets go of the pointer without destroying it
null_assign_releasing(S, h) == release(S, h)

\* operator=(nullptr_t): reset()
null_assign(S, h) == reset(S, h, Null)

\* copy assignment that destroys its own object before it replicates the
\* source's
copy_assign_reset_first(S, a, b, fails) ==
  LET D == reset(S, a, Null)
      R == replicate(D, get_handler(D, b), get(D, b), fails)
  IN IF R.exc THEN R
     ELSE [R EXCEPT !.ptr = [@ EXCEPT ![a] = R.ret],
                    !.hnd = [@ EXCEPT ![a] = get_handler(D, b)]]

\* copy assignment that takes over the pointer of the source
copy_assign_shallow(S, a, b, fails) == reset(S, a, get(S, b))

\* operator=(value_ptr const &other): tmp = other; swap(tmp); ~tmp
copy_assign(S, a, b, fails) ==
  LET T == copy_ctor(S, Tmp, b, fails) IN
  IF T.term THEN T ELSE dtor(swap(T, a, Tmp), Tmp)

\* templated operator=(value_ptr<T2, H2> const &other):
\* tmp = other; swap(other); ~tmp
templated_copy_assign(S, a, b, fails) ==
  LET T == copy_ctor(S, Tmp, b, fails) IN
  IF T.term THEN T ELSE dtor(swap(T, a, b), Tmp)

\* move assignment in the manner of unique_ptr: reset(other.release())
move_assign_reset(S, a, b) ==
  LET R == release(S, b) IN reset(R, a, R.ret)

\* operator=(value_ptr &&other), and its templated twin: swap(std::move(other))
move_assign(S, a, b) == swap(S, a, b)

\* ---- one call of the client program ---------------------------------------
\* what a call of the client program leaves behind for inspection: the call,
\* its operands, the state it started from, the value it returned and the
\* handler calls it made
Record(op, dst, src, S) ==
  [op |-> op, dst |-> dst, src |-> src,
   pre |-> [live |-> live, ptr |-> ptr, hnd |-> hnd, val |-> val,
            dcount |-> dcount, nalloc |-> nalloc, ext |-> ext],
   ret |-> S.ret, calls |-> S.calls, threw |-> S.exc]

CommitHandles(op, dst, src, t, S) ==
  /\ live' = [h \in Handles |-> S.live[h]]
  /\ ty' = [h \in Handles |-> IF ~S.live[h] THEN "Base"
                               ELSE IF live[h] THEN ty[h] ELSE t]
  /\ ptr' = [h \in Handles |-> S.ptr[h]]
  /\ hnd' = [h \in Handles |-> S.hnd[h]]
  /\ st' = S.st
  /\ val' = S.val
  /\ dcount' = S.dcount
  /\ nalloc' = S.nalloc
  /\ owned' = S.owned
  /\ terminated' = S.term
  /\ last' = Record(op, dst, src, S)

\* a call that involves no standard smart pointer
Commit(op, dst, src, t, S) ==
  /\ CommitHandles(op, dst, src, t, S)
  /\ UNCHANGED <<trait, arr, ext, abi>>

Init ==
  /\ live = [h \in Handles |-> FALSE]
  /\ ty = [h \in Handles |-> "Base"]
  /\ ptr = [h \in Handles |-> Null]
  /\ hnd = [h \in Handles |-> DefaultHandler]
  /\ st = [a \in Addrs |-> "unused"]
  /\ val = [a \in Addrs |-> 0]
  /\ dcount = [a \in Addrs |-> 0]
  /\ nalloc = 0
  /\ owned = {}
  /\ terminated = FALSE
  /\ ext = NoExt
  /\ last = [op |-> "none", dst |-> 0, src |-> 0,
             pre |-> [live |-> live, ptr |-> ptr, hnd |-> hnd, val |-> val,
                      dcount |-> dcount, nalloc |-> nalloc, ext |-> ext],
             ret |-> Null, calls |-> << >>, threw |-> FALSE]
  /\ trait = NoTrait
  /\ arr = NoArrays
  /\ abi = NoAbi

\* value_ptr(): value_ptr{pointer_type(), handler_type(), nullptr}
DefaultConstruct(h, t) ==
  /\ ~terminated /\ ~live[h]
  /\ Commit("default_ctor", h, 0, t, master_ctor(Machine, h, Null, DefaultHandler))

\* value_ptr(new T(v)) and value_ptr(new T(v), h)
ConstructNew(h, t, v, hid) ==
  /\ ~terminated /\ ~live[h] /\ nalloc < MaxAddr
  /\ LET a == nalloc + 1
         N == [Machine EXCEPT !.nalloc = a,
                              !.st = [@ EXCEPT ![a] = "live"],
                              !.val = [@ EXCEPT ![a] = v]]
     IN Commit("own_ctor", h, 0, t, master_ctor(N, h, a, hid))

\* value_ptr(nullptr) and value_ptr(nullptr, h)
ConstructNull(h, t, hid) ==
  /\ ~terminated /\ ~live[h]
  /\ Commit("null_ctor", h, 0, t, master_ctor(Machine, h, Null, hid))

\* value_ptr(value_ptr const &other) and value_ptr(value_ptr<T2, H2> const &other)
CopyConstruct(b, t, a, fails) ==
  /\ ~terminated /\ ~live[b] /\ live[a] /\ enable_if_compatible(t, ty[a])
  /\ Commit("copy_ctor", b, a, t, copy_ctor(Machine, b, a, fails))

\* value_ptr(value_ptr &&other) and value_ptr(value_ptr<T2, H2> &&other)
MoveConstruct(b, t, a) ==
  /\ ~terminated /\ ~live[b] /\ live[a] /\ enable_if_compatible(t, ty[a])
  /\ Commit("move_ctor", b, a, t, move_ctor(Machine, b, a))

\* h = nullptr
NullAssign(h) ==
  /\ ~terminated /\ live[h]
  /\ Commit("null_assign", h, 0, ty[h], null_assign(Machine, h))

\* a = b, both of the same instantiation (a = a included)
CopyAssign(a, b, fails) ==
  /\ ~terminated /\ live[a] /\ live[b] /\ ~enable_if_different(ty[a], ty[b])
  /\ Commit("copy_assign", a, b, ty[a], copy_assign(Machine, a, b, fails))

\* a = b, b of a different, compatible instantiation
TemplatedCopyAssign(a, b, fails) ==
  /\ ~terminated /\ live[a] /\ live[b]
  /\ enable_if_different(ty[a], ty[b]) /\ enable_if_compatible(ty[a], ty[b])
  /\ Commit("templated_copy_assign", a, b, ty[a],
            templated_copy_assign(Machine, a, b, fails))

\* a = std::move(b), same or compatible instantiation (a = std::move(a) included)
MoveAssign(a, b) ==
  /\ ~terminated /\ live[a] /\ live[b] /\ enable_if_compatible(ty[a], ty[b])
  /\ Commit("move_assign", a, b, ty[a], move_assign(Machine, a, b))

\* p = h.release(): the caller owns p from now on
Release(h) ==
  /\ ~terminated /\ live[h]
  /\ LET R == release(Machine, h)
     IN Commit("release", h, 0, ty[h], [R EXCEPT !.owned = @ \cup ({R.ret} \ {Null})])

\* h.reset() and h.reset(h.get())
Reset(h, p) ==
  /\ ~terminated /\ live[h] /\ p \in {Null, ptr[h]}
  /\ Commit("reset", h, 0, ty[h], [reset(Machine, h, p) EXCEPT !.ret = p])

\* h.reset(new T(v))
ResetNew(h, v) ==
  /\ ~terminated /\ live[h] /\ nalloc < MaxAddr
  /\ LET a == nalloc + 1
         N == [Machine EXCEPT !.nalloc = a,
                              !.st = [@ EXCEPT ![a] = "live"],
                              !.val = [@ EXCEPT ![a] = v]]
     IN Commit("reset", h, 0, ty[h], [reset(N, h, a) EXCEPT !.ret = a])

\* a.swap(b)
Swap(a, b) ==
  /\ ~terminated /\ live[a] /\ live[b] /\ a # b /\ enable_if_compatible(ty[a], ty[b])
  /\ Commit("swap", a, b, ty[a], swap(Machine, a, b))

\* h goes out of scope
Destruct(h) ==
  /\ ~terminated /\ live[h]
  /\ Commit("dtor", h, 0, ty[h], dtor(Machine, h))

\* *h = v
Mutate(h, v) ==
  /\ ~terminated /\ live[h] /\ ptr[h] # Null /\ val[ptr[h]] # v
  /\ Commit("mutate", h, 0, ty[h],
            [Machine EXCEPT !.val = [@ EXCEPT ![ptr[h]] = v], !.ret = v])

Next ==
  \/ \E h \in Handles, t \in Types : DefaultConstruct(h, t)
  \/ \E h \in Handles, t \in Types, v \in Values, hid \in HandlerIds :
       ConstructNew(h, t, v, hid)
  \/ \E h \in Handles, t \in Types, hid \in HandlerIds : ConstructNull(h, t, hid)
  \/ \E b, a \in Handles, t \in Types, fails \in BOOLEAN :
       CopyConstruct(b, t, a, fails)
  \/ \E b, a \in Handles, t \in Types : MoveConstruct(b, t, a)
  \/ \E h \in Handles : NullAssign(h)
  \/ \E a, b \in Handles, fails \in BOOLEAN : CopyAssign(a, b, fails)
  \/ \E a, b \in Handles, fails \in BOOLEAN : TemplatedCopyAssign(a, b, fails)
  \/ \E a, b \in Handles : MoveAssign(a, b)
  \/ \E h \in Handles : Release(h)
  \/ \E h \in Handles, p \in Pointers : Reset(h, p)
  \/ \E h \in Handles, v \in Values : ResetNew(h, v)
  \/ \E a, b \in Handles : Swap(a, b)
  \/ \E h \in Handles : Destruct(h)
  \/ \E h \in Handles, v \in Values : Mutate(h, v)

Spec == Init /\ [][Next]_vars

TypeOK ==
  /\ live \in [Handles -> BOOLEAN]
  /\ ty \in [Handles -> Types]
  /\ ptr \in [Handles -> Pointers]
  /\ hnd \in [Handles -> HandlerIds]
  /\ nalloc \in 0..MaxAddr
  /\ owned \subseteq Addrs
\* ---- reset(p), statement by statement -------------------------------------
\* the first statement of reset(p): get_handler().destroy(get())
reset_destroy(S, h) == destroy(S, get_handler(S, h), get(S, h))

\* the second statement of reset(p): std::get<0>(c) = p
reset_store(S, h, p) == [S EXCEPT !.ptr = [@ EXCEPT ![h] = p]]

\* where a call stands when destroy has returned and p is not yet stored
AfterDestroy ==
  [reset |-> "reset after destroy", null_assign |-> "null_assign after destroy",
   dtor |-> "dtor after destroy"]

\* the call whose second statement is still to run
ResetOf ==
  [s \in {AfterDestroy.reset, AfterDestroy.null_assign, AfterDestroy.dtor} |->
     IF s = AfterDestroy.reset THEN "reset"
     ELSE IF s = AfterDestroy.null_assign THEN "null_assign" ELSE "dtor"]

InReset == last.op \in DOMAIN ResetOf

\* h.reset(), h.reset(new T(v)), h = nullptr and ~h up to the return of destroy,
\* when the test p != get() succeeds; p is kept in last.ret
ResetDestroy(op, h, p, v) ==
  /\ ~terminated /\ ~InReset /\ live[h] /\ p # ptr[h]
  /\ \/ p = Null /\ v = 0
     \/ op = "reset" /\ nalloc < MaxAddr /\ p = nalloc + 1
  /\ LET N == IF p = Null THEN Machine
              ELSE [Machine EXCEPT !.nalloc = p,
                                   !.st = [@ EXCEPT ![p] = "live"],
                                   !.val = [@ EXCEPT ![p] = v]]
     IN Commit(AfterDestroy[op], h, 0, ty[h],
               [reset_destroy(N, h) EXCEPT !.ret = p])

\* the store that ends the call, and for ~h the end of the object's life
ResetStore ==
  /\ ~terminated /\ InReset
  /\ LET h == last.dst
         S == reset_store(Machine, h, last.ret)
     IN /\ live' = [live EXCEPT ![h] = (ResetOf[last.op] # "dtor")]
        /\ ty' = [ty EXCEPT ![h] = IF ResetOf[last.op] = "dtor" THEN "Base" ELSE @]
        /\ ptr' = [x \in Handles |-> S.ptr[x]]
        /\ hnd' = [hnd EXCEPT ![h] = IF ResetOf[last.op] = "dtor"
                                         THEN DefaultHandler ELSE @]
        /\ last' = [last EXCEPT !.op = ResetOf[last.op]]
        /\ UNCHANGED <<st, val, dcount, nalloc, owned, terminated, trait, arr, ext,
                     abi>>

StepNext ==
  \/ \E h \in Handles, t \in Types, v \in Values, hid \in HandlerIds :
       ~InReset /\ ConstructNew(h, t, v, hid)
  \/ \E h \in Handles, t \in Types, hid \in HandlerIds :
       ~InReset /\ ConstructNull(h, t, hid)
  \/ \E h \in Handles : ~InReset /\ Release(h)
  \/ \E h \in Handles : ~InReset /\ Reset(h, ptr[h])
  \/ \E h \in Handles : ~InReset /\ ptr[h] = Null /\ Destruct(h)
  \/ \E op \in {"reset", "null_assign", "dtor"}, h \in Handles,
        p \in Pointers, v \in Values : ResetDestroy(op, h, p, v)
  \/ ResetStore

StepSpec == Init /\ [][StepNext]_vars

\* ---- compile time: is_cloneable and the static_assert of the constructors ---
MaxSize == 2         \* sizeof of a class is 1..MaxSize
MaxArgs == 1         \* parameters without default argument of a clone method

\* a class T as is_cloneable<T> sees it: whether it is polymorphic, where the
\* member named clone is declared ("none": no such member, "own": in T,
\* "inherited": in an ancestor A of T and not overridden), whether clone is
\* const, how many arguments a call needs, the class R of its R* result
\* ("self": T, "ancestor": A, "other": a class unrelated to T), and the sizes
\* of T and of A
Classes ==
  {c \in [poly : BOOLEAN, decl : {"none", "own", "inherited"}, const : BOOLEAN,
           args : 0..MaxArgs, ret : {"self", "ancestor", "other"},
           size : 1..MaxSize, asize : 1..MaxSize] :
     /\ c.asize <= c.size
     /\ c.decl = "inherited" => c.ret # "self"
     /\ c.decl = "none" => (c.const /\ c.args = 0 /\ c.ret = "self")}

\* the class S deduced from decltype(&T::clone): the class clone is a direct
\* member of
deduced_S(c) == IF c.decl = "inherited" THEN "ancestor" ELSE "self"

\* sizeof of T, of its ancestor A, and of an unrelated class of T's size
sizeof(c, k) == IF k = "ancestor" THEN c.asize ELSE c.size

\* std::is_base_of<R, S>
is_base_of(R, S) == R = S \/ (R = "ancestor" /\ S = "self")

\* test(R *(S::*)(U...) const, nullptr_t): sizeof(R) == sizeof(S) &&
\* is_base_of<R, S> && is_same<R *, decltype(declval<S>().clone())>
test_signature(c) ==
  /\ sizeof(c, c.ret) = sizeof(c, deduced_S(c))
  /\ is_base_of(c.ret, deduced_S(c))

\* how the compiler looks up the call test(&S::clone, nullptr) written in the
\* return type of the second overload, before the third overload is declared:
\* in the context of the definition (two-phase lookup, g++ 12), or with the
\* complete class in view (what the README describes the trait as doing)
LookupRules == {"definition", "instantiation"}

\* whether that call finds test(R *(S::*)(U...) const, nullptr_t)
finds_signature_test(lookup) == lookup = "instantiation"

\* test<T>(nullptr): the overload taking decltype(&S::clone) if T has a member
\* clone, its return type decltype(test(&S::clone, nullptr)) names a function
\* (clone matches "R *(S::*)(U...) const" and can be called without
\* arguments), the overload test(...) -> std::false_type otherwise
test(c, lookup) ==
  IF c.decl = "none" \/ ~c.const \/ c.args > 0 \/ ~finds_signature_test(lookup)
    THEN FALSE
    ELSE test_signature(c)

\* is_cloneable<T>::value
is_cloneable(c, lookup) == c.poly /\ test(c, lookup)

\* the instantiations value_ptr<T, H>: T is E, E[] or E[N]
Shapes == {"T", "T[]", "T[N]"}

\* std::is_polymorphic<T>::value: an array type is not a class type
is_polymorphic(shape, poly) == shape = "T" /\ poly

\* static_assert(!std::is_polymorphic<T>::value || H::slice_safe, "would slice
\* when copying") of the two master constructors: TRUE when it lets the
\* construction through
would_slice(shape, poly, slice_safe) == ~is_polymorphic(shape, poly) \/ slice_safe

\* is_cloneable<T>::value is asked for
IsCloneable(c, lookup) ==
  /\ trait' = [op |-> "is_cloneable", cls |-> c, lookup |-> lookup,
               value |-> is_cloneable(c, lookup)]
  /\ UNCHANGED <<hvars, arr, abi>>

\* a constructor of value_ptr<T, H> is instantiated; every constructor
\* delegates to one of the two master constructors
Instantiate(shape, poly, slice_safe) ==
  /\ trait' = [op |-> "value_ptr", shape |-> shape, poly |-> poly,
               slice_safe |-> slice_safe,
               accepted |-> would_slice(shape, poly, slice_safe)]
  /\ UNCHANGED <<hvars, arr, abi>>

TraitNext ==
  \/ \E c \in Classes, lookup \in LookupRules : IsCloneable(c, lookup)
  \/ \E shape \in Shapes, poly, slice_safe \in BOOLEAN :
       Instantiate(shape, poly, slice_safe)

TraitSpec == Init /\ [][TraitNext]_vars

\* ---- the default handlers and the heap they work on -----------------------
MaxLen    == 4       \* arrays have 0..MaxLen elements
MaxBlocks == 2       \* allocations the heap can serve

FixedN    == 2       \* N of the instantiation value_ptr<Base[N]>

\* the classes whose objects a client can hand to a value_ptr<Base>, <Base[]>
\* or <Base[N]>: Base itself and every class derived from it, be it of Base's
\* size (Derived) or with data members of its own (Wide)
ElemClasses == {"Base", "Derived", "Wide"}

\* sizeof of a class, in units of sizeof(Base)
sizeof_class(k) == IF k = "Wide" THEN 2 ELSE 1

\* a block is a run of cells of sizeof(Base) each; a cell holds the start of
\* an object, the rest of a larger object, or nothing constructed
Raw == [k |-> "raw", v |-> 0]

Rest == [k |-> "tail", v |-> 0]

Ev(S, e) == [S EXCEPT !.ev = Append(@, e)]

\* p + i points to an object (T is Base: p + i is i cells after p)
is_object(S, p, i) ==
  /\ i + 1 \in 1..Len(S.blk[p].cells)
  /\ S.blk[p].cells[i + 1].k \in ElemClasses

\* the dynamic type a virtual call through p + i dispatches on; g is what the
\* call comes upon where p + i does not point to an object
dynamic_type(S, p, i, g) ==
  IF is_object(S, p, i) THEN S.blk[p].cells[i + 1].k ELSE g

\* the content read through p + i
value_at(S, p, i) == IF is_object(S, p, i) THEN S.blk[p].cells[i + 1].v ELSE 0

\* an access through p + i: undefined behaviour where there is no object
access(S, p, i) == IF is_object(S, p, i) THEN S ELSE [S EXCEPT !.ub = TRUE]

\* new(p + i) K{...}: an object of class k is constructed at p + i; it must
\* fit into the block and must not lie over another object
construct(S, p, i, k, v) ==
  LET c == S.blk[p].cells
      last_cell == i + sizeof_class(k)
      ok == last_cell <= Len(c) /\ \A j \in (i + 1)..last_cell : c[j] = Raw
      w == [j \in 1..Len(c) |->
              IF j = i + 1 THEN [k |-> k, v |-> v]
              ELSE IF j > i + 1 /\ j <= last_cell THEN Rest ELSE c[j]]
  IN [Ev(S, <<"new", p, i, k>>) EXCEPT !.blk[p].cells = w,
                                       !.ub = @ \/ ~ok]

\* (p + i)->~T(), T's destructor being virtual
destruct(S, p, i, g) ==
  LET c == S.blk[p].cells
      last_cell == i + sizeof_class(dynamic_type(S, p, i, g))
      w == [j \in 1..Len(c) |-> IF j >= i + 1 /\ j <= last_cell THEN Raw ELSE c[j]]
  IN [Ev(access(S, p, i), <<"~T", p, i>>) EXCEPT !.blk[p].cells = w]

\* operator new for one object of class k; std::bad_alloc when the heap is full
allocate(S, k) ==
  IF Len(S.blk) >= MaxBlocks
    THEN [S EXCEPT !.exc = TRUE]
    ELSE [Ev(S, <<"operator new", Len(S.blk) + 1, sizeof_class(k)>>) EXCEPT
            !.blk = Append(@, [cells |-> [j \in 1..sizeof_class(k) |-> Raw],
                               array |-> FALSE, n |-> 0, freed |-> 0]),
            !.ret = Len(S.blk) + 1]

\* operator delete
deallocate(S, p) ==
  [Ev(S, <<"operator delete", p>>) EXCEPT
     !.blk[p].freed = @ + 1,
     !.blk[p].cells = [j \in 1..Len(@) |-> Raw]]

\* ABI::newArray<T>(n): room for n objects of T behind a cookie holding n, no
\* constructor called
newArray(S, n) ==
  IF Len(S.blk) >= MaxBlocks
    THEN [S EXCEPT !.exc = TRUE]
    ELSE [Ev(S, <<"newArray", Len(S.blk) + 1, n>>) EXCEPT
            !.blk = Append(@, [cells |-> [j \in 1..(n * sizeof_class("Base")) |-> Raw],
                               array |-> TRUE, n |-> n, freed |-> 0]),
            !.ret = Len(S.blk) + 1]

\* arraySize that takes every array of several elements for one of one element
arraySize_at_most_one(S, p) == IF S.blk[p].n > 1 THEN 1 ELSE S.blk[p].n

\* ABI::arraySize<T>(p): the cookie
arraySize(S, p) == S.blk[p].n

\* delArray that leaves the block allocated
delArray_not_freeing(S, p) == Ev(S, <<"delArray", p>>)

\* ABI::delArray<T>(p): the block is freed, no destructor called
delArray(S, p) ==
  [Ev(S, <<"delArray", p>>) EXCEPT
     !.blk[p].freed = @ + 1,
     !.blk[p].cells = [j \in 1..Len(@) |-> Raw]]

RECURSIVE destroy_catch(_, _, _, _, _)
\* the handler of default_destroy<T[]>::destroy, entered with the counter at i:
\* while (i--) { try { (p + i)->~T(); } catch (...) { std::terminate(); } }
\* ABI::delArray<T>(p); throw;
destroy_catch(S, p, i, throws, g) ==
  IF i = 0
    THEN [delArray(S, p) EXCEPT !.exc = TRUE]
    ELSE LET D == destruct(S, p, i - 1, g) IN
         IF (i - 1) \in throws THEN [D EXCEPT !.term = TRUE]
                               ELSE destroy_catch(D, p, i - 1, throws, g)

RECURSIVE destroy_try(_, _, _, _, _)
\* the try block of default_destroy<T[]>::destroy with the counter at i:
\* while (i--) { (p + i)->~T(); } ABI::delArray<T>(p);
destroy_try(S, p, i, throws, g) ==
  IF i = 0
    THEN delArray(S, p)
    ELSE LET D == destruct(S, p, i - 1, g) IN
         IF (i - 1) \in throws THEN destroy_catch(D, p, i - 1, throws, g)
                               ELSE destroy_try(D, p, i - 1, throws, g)

\* destroy that leaves out the last element of an array
default_destroy_skipping_last(S, shape, p, throws, g) ==
  IF shape = "T"
    THEN IF p = Null THEN S
         ELSE LET D == destruct(S, p, 0, g) IN
              IF 0 \in throws THEN [deallocate(D, p) EXCEPT !.exc = TRUE]
                               ELSE deallocate(D, p)
  ELSE IF p = Null THEN S
  ELSE LET n == IF shape = "T[]" THEN arraySize(S, p) ELSE FixedN
       IN destroy_try(S, p, IF n > 0 THEN n - 1 ELSE 0, throws, g)

\* default_destroy<T>, <T[]> and <T[N]>::destroy(p) (delete p frees the object
\* also when its destructor throws); throws are the indices of
\* the elements whose destructor throws
default_destroy(S, shape, p, throws, g) ==
  IF shape = "T"
    THEN IF p = Null THEN S
         ELSE LET D == destruct(S, p, 0, g) IN
              IF 0 \in throws THEN [deallocate(D, p) EXCEPT !.exc = TRUE]
                               ELSE deallocate(D, p)
  ELSE IF p = Null THEN S
  ELSE destroy_try(S, p, IF shape = "T[]" THEN arraySize(S, p) ELSE FixedN,
                   throws, g)

RECURSIVE replicate_catch(_, _, _, _, _)
\* the handler of the array replicate functions, entered with the counter at i:
\* while (i--) { try { (ret + i)->~T(); } catch (...) { std::terminate(); } }
\* ABI::delArray<T>(ret); throw;
replicate_catch(S, r, i, throws, g) ==
  IF i = 0
    THEN [delArray(S, r) EXCEPT !.exc = TRUE, !.ret = Null]
    ELSE LET D == destruct(S, r, i - 1, g) IN
         IF (i - 1) \in throws THEN [D EXCEPT !.term = TRUE]
                               ELSE replicate_catch(D, r, i - 1, throws, g)

RECURSIVE replicate_try(_, _, _, _, _, _, _, _, _)
\* the try block of the array replicate functions with the counter at i:
\* for (; i < n; i++) { new(ret + i) T{p[i]}; }        (default_copy)
\* for (; i < n; i++) { (p + i)->clone(ret + i); }     (default_clone)
\* fail is the index of the element whose construction throws
replicate_try(S, kind, p, r, i, n, fail, throws, g) ==
  IF i >= n
    THEN [S EXCEPT !.ret = r]
  ELSE IF i = fail
    THEN replicate_catch(access(S, p, i), r, i, throws, g)
  ELSE LET k == IF kind = "clone" THEN dynamic_type(S, p, i, g) ELSE "Base"
       IN replicate_try(construct(access(S, p, i), r, i, k, value_at(S, p, i)),
                        kind, p, r, i + 1, n, fail, throws, g)

\* replicate that allocates an object when it is given nullptr
default_replicate_of_null(S, kind, shape, p, fail, throws, g) ==
  IF p = Null
    THEN allocate(S, "Base")
  ELSE IF shape = "T"
    THEN LET k == IF kind = "clone" THEN dynamic_type(S, p, 0, g) ELSE "Base"
             A == allocate(access(S, p, 0), k)
         IN IF A.exc THEN A
            ELSE IF fail = 0 THEN [deallocate(A, A.ret) EXCEPT !.exc = TRUE,
                                                             !.ret = Null]
            ELSE construct(A, A.ret, 0, k, value_at(S, p, 0))
  ELSE LET n == IF shape = "T[]" THEN arraySize(S, p) ELSE FixedN
           A == newArray(S, n)
       IN IF A.exc THEN A
          ELSE replicate_try(A, kind, p, A.ret, 0, n, fail, throws, g)

\* default_copy and default_clone, <T>, <T[]> and <T[N]>::replicate(p)
default_replicate(S, kind, shape, p, fail, throws, g) ==
  IF p = Null
    THEN [S EXCEPT !.ret = Null]
  ELSE IF shape = "T"
    THEN LET k == IF kind = "clone" THEN dynamic_type(S, p, 0, g) ELSE "Base"
             A == allocate(access(S, p, 0), k)
         IN IF A.exc THEN A
            ELSE IF fail = 0 THEN [deallocate(A, A.ret) EXCEPT !.exc = TRUE,
                                                             !.ret = Null]
            ELSE construct(A, A.ret, 0, k, value_at(S, p, 0))
  ELSE LET n == IF shape = "T[]" THEN arraySize(S, p) ELSE FixedN
           A == newArray(S, n)
       IN IF A.exc THEN A
          ELSE replicate_try(A, kind, p, A.ret, 0, n, fail, throws, g)

\* the handler call starts from the heap as it is
ArrayMachine ==
  [arr EXCEPT !.pre = arr.blk, !.ret = Null, !.ev = << >>, !.exc = FALSE]

\* p is a pointer a value_ptr<T> of this shape can hold: nullptr, or a block
\* that is not freed, from new for T, from new[] for T[] and T[N], of N
\* elements for T[N]
Holds(shape, p) ==
  \/ p = Null
  \/ /\ p \in 1..Len(arr.blk)
     /\ arr.blk[p].freed = 0
     /\ arr.blk[p].array = (shape # "T")
     /\ shape = "T[N]" => arr.blk[p].n = FixedN

\* the number of elements a handler of this shape takes p to point to
Elements(shape, p) ==
  IF p = Null THEN 0
  ELSE IF shape = "T" THEN 1
  ELSE IF shape = "T[]" THEN arr.blk[p].n ELSE FixedN

\* new K(): one object
NewObject(k) ==
  /\ ~arr.term /\ ~arr.ub /\ Len(arr.blk) < MaxBlocks
  /\ LET A == allocate(ArrayMachine, k)
         C == construct(A, A.ret, 0, k, 1)
     IN arr' = [C EXCEPT !.op = "new", !.kind = k, !.shape = "T", !.p = Null]
  /\ UNCHANGED <<hvars, trait, abi>>

\* new K[n](): n objects of class k behind a cookie, the i-th holding i
NewArrayOf(k, n) ==
  /\ ~arr.term /\ ~arr.ub /\ Len(arr.blk) < MaxBlocks
  /\ LET b == Len(arr.blk) + 1
         c == [j \in 1..(n * sizeof_class(k)) |->
                 IF (j - 1) % sizeof_class(k) = 0
                   THEN [k |-> k, v |-> ((j - 1) \div sizeof_class(k)) + 1]
                   ELSE Rest]
     IN arr' = [ArrayMachine EXCEPT
                  !.blk = Append(@, [cells |-> c, array |-> TRUE, n |-> n,
                                     freed |-> 0]),
                  !.ret = b, !.op = "new[]", !.kind = k, !.shape = "T[]",
                  !.p = Null]
  /\ UNCHANGED <<hvars, trait, abi>>

\* get_handler().replicate(get()) of a copy, for the handlers default_copy
\* and default_clone; the construction of element fail throws (none does if
\* fail is the number of elements), and so do the destructors of the elements
\* throws of those constructed before
Replicate(kind, shape, p, fail, throws, g) ==
  /\ ~arr.term /\ ~arr.ub /\ Holds(shape, p)
  /\ fail <= Elements(shape, p) /\ throws \subseteq 0..(fail - 1)
  /\ fail = Elements(shape, p) => throws = {}
  /\ arr' = [default_replicate(ArrayMachine, kind, shape, p, fail, throws, g)
               EXCEPT !.op = "replicate", !.kind = kind, !.shape = shape,
                      !.p = p]
  /\ g = "Base" \/ arr'.ub
  /\ UNCHANGED <<hvars, trait, abi>>

\* get_handler().destroy(get()) of a reset or a destructor; the destructors
\* of the elements throws throw
Destroy(shape, p, throws, g) ==
  /\ ~arr.term /\ ~arr.ub /\ Holds(shape, p)
  /\ throws \subseteq 0..(Elements(shape, p) - 1)
  /\ arr' = [default_destroy(ArrayMachine, shape, p, throws, g)
               EXCEPT !.op = "destroy", !.kind = "destroy", !.shape = shape,
                      !.p = p]
  /\ g = "Base" \/ arr'.ub
  /\ UNCHANGED <<hvars, trait, abi>>

ArrayNext ==
  \/ \E k \in ElemClasses : NewObject(k)
  \/ \E k \in ElemClasses, n \in 0..MaxLen : NewArrayOf(k, n)
  \/ \E kind \in {"copy", "clone"}, shape \in Shapes, p \in 0..MaxBlocks,
        fail \in 0..MaxLen, throws \in SUBSET (0..(MaxLen - 1)),
        g \in ElemClasses :
       Replicate(kind, shape, p, fail, throws, g)
  \/ \E shape \in Shapes, p \in 0..MaxBlocks,
        throws \in SUBSET (0..(MaxLen - 1)), g \in ElemClasses :
       Destroy(shape, p, throws, g)

ArraySpec == Init /\ [][ArrayNext]_vars

\* ---- value_ptr from the standard smart pointers ----------------------------
ExtKinds == {"auto", "unique", "shared", "weak"}

\* the machine state with the standard smart pointers and the temporary
\* shared_ptr of the weak_ptr constructors
ExtMachine ==
  [ext |-> [kind |-> [s \in ExtSlots |-> IF s = Locked THEN "none" ELSE ext.kind[s]],
            ptr  |-> [s \in ExtSlots |-> IF s = Locked THEN Null ELSE ext.ptr[s]]]]
  @@ Machine

\* p.get() of an auto_ptr, a unique_ptr or a shared_ptr
ext_get(S, e) == S.ext.ptr[e]

\* p.get_deleter() of a std::unique_ptr<T2>
get_deleter(S, e) == DefaultDelete

\* p.release() of an auto_ptr or a unique_ptr
ext_release(S, e) ==
  [S EXCEPT !.ret = S.ext.ptr[e], !.ext.ptr[e] = Null]

\* the shared_ptr objects that own x
owners(S, x) ==
  {s \in ExtSlots : S.ext.kind[s] = "shared" /\ S.ext.ptr[s] = x /\ x # Null}

\* lock that hands out no temporary owner
lock_empty(S, e) ==
  [S EXCEPT !.ext.kind[Locked] = "shared", !.ext.ptr[Locked] = Null]

\* p.lock() of a weak_ptr: a temporary shared_ptr, empty if p has expired
lock(S, e) ==
  [S EXCEPT !.ext.kind[Locked] = "shared",
            !.ext.ptr[Locked] = IF owners(S, S.ext.ptr[e]) # {}
                                  THEN S.ext.ptr[e] ELSE Null]

\* the destructor of a standard smart pointer: an auto_ptr, a unique_ptr and
\* the last shared_ptr of an object delete it
ext_dtor(S, e) ==
  LET x == S.ext.ptr[e]
      deletes == /\ x # Null
                 /\ \/ S.ext.kind[e] \in {"auto", "unique"}
                    \/ S.ext.kind[e] = "shared" /\ owners(S, x) = {e}
  IN [S EXCEPT !.ext.kind[e] = "none", !.ext.ptr[e] = Null,
               !.st = IF deletes THEN [@ EXCEPT ![x] = "destroyed"] ELSE @,
               !.val = IF deletes THEN [@ EXCEPT ![x] = 0] ELSE @]

\* value_ptr(std::auto_ptr<T2> const &p):
\* value_ptr{handler_type().replicate(p.get())}
auto_copy_ctor(S, h, e, fails) ==
  LET R == noexcept(replicate(S, DefaultHandler, ext_get(S, e), fails)) IN
  IF R.term THEN R ELSE master_ctor(R, h, R.ret, DefaultHandler)

\* value_ptr(std::auto_ptr<T2> const &p, H2&& h):
\* value_ptr{h.replicate(p.get()), std::forward<H2>(h)}
auto_copy_ctor_h(S, h, e, hid, fails) ==
  LET R == noexcept(replicate(S, hid, ext_get(S, e), fails)) IN
  IF R.term THEN R ELSE master_ctor(R, h, R.ret, hid)

\* value_ptr(std::auto_ptr<T2> &&p): value_ptr{p.release()}
auto_move_ctor(S, h, e) ==
  LET R == ext_release(S, e) IN master_ctor(R, h, R.ret, DefaultHandler)

\* value_ptr(std::auto_ptr<T2> &&p, H2&& h):
\* value_ptr{p.release(), std::forward<H2>(h)}
auto_move_ctor_h(S, h, e, hid) ==
  LET R == ext_release(S, e) IN master_ctor(R, h, R.ret, hid)

\* value_ptr(std::unique_ptr<T2> const &p):
\* value_ptr{handler_type().replicate(p.get()), handler_type()}
unique_copy_ctor(S, h, e, fails) ==
  LET R == noexcept(replicate(S, DefaultHandler, ext_get(S, e), fails)) IN
  IF R.term THEN R ELSE master_ctor(R, h, R.ret, DefaultHandler)

\* value_ptr(std::unique_ptr<T2> const &p, H2&& h):
\* value_ptr{h.replicate(p.get()), std::forward<H2>(h)}
unique_copy_ctor_h(S, h, e, hid, fails) ==
  LET R == noexcept(replicate(S, hid, ext_get(S, e), fails)) IN
  IF R.term THEN R ELSE master_ctor(R, h, R.ret, hid)

\* value_ptr(std::unique_ptr<T2> &&p): value_ptr{p.release(), handler_type()}
unique_move_ctor(S, h, e) ==
  LET R == ext_release(S, e) IN master_ctor(R, h, R.ret, DefaultHandler)

\* value_ptr(std::unique_ptr<T2> &&p, H2&& h):
\* value_ptr{p.release(), std::forward<H2>(h)}
unique_move_ctor_h(S, h, e, hid) ==
  LET R == ext_release(S, e) IN master_ctor(R, h, R.ret, hid)

\* a constructor from shared_ptr that takes over the address of the shared object
shared_copy_ctor_shallow(S, h, e, fails) ==
  master_ctor(S, h, ext_get(S, e), DefaultHandler)

\* value_ptr(std::shared_ptr<T2> const &p):
\* value_ptr{handler_type().replicate(p.get()), handler_type()}
shared_copy_ctor(S, h, e, fails) ==
  LET R == noexcept(replicate(S, DefaultHandler, ext_get(S, e), fails)) IN
  IF R.term THEN R ELSE master_ctor(R, h, R.ret, DefaultHandler)

\* value_ptr(std::shared_ptr<T2> const &p, H2&& h):
\* value_ptr{handler_type().replicate(p.get()), std::forward<H2>(h)}
shared_copy_ctor_h(S, h, e, hid, fails) ==
  LET R == noexcept(replicate(S, DefaultHandler, ext_get(S, e), fails)) IN
  IF R.term THEN R ELSE master_ctor(R, h, R.ret, hid)

\* a constructor from weak_ptr that takes what the weak_ptr refers to for alive
weak_ctor_unlocked(S, h, e, fails) ==
  LET L == [S EXCEPT !.ext.kind[Locked] = "shared",
                     !.ext.ptr[Locked] = S.ext.ptr[e]]
      C == shared_copy_ctor(L, h, Locked, fails)
  IN IF C.term THEN C ELSE [C EXCEPT !.ext.kind[Locked] = "none",
                                     !.ext.ptr[Locked] = Null]

\* value_ptr(std::weak_ptr<T2> const &p): value_ptr{p.lock()}; the temporary
\* is gone when the constructor returns
weak_ctor(S, h, e, fails) ==
  LET C == shared_copy_ctor(lock(S, e), h, Locked, fails) IN
  IF C.term THEN C ELSE ext_dtor(C, Locked)

\* value_ptr(std::weak_ptr<T2> const &p, H2&& h):
\* value_ptr{p.lock(), std::forward<H2>(h)}
weak_ctor_h(S, h, e, hid, fails) ==
  LET C == shared_copy_ctor_h(lock(S, e), h, Locked, hid, fails) IN
  IF C.term THEN C ELSE ext_dtor(C, Locked)

\* the client declares its objects in order: the next value_ptr is h, the
\* next standard smart pointer is e
NextHandle(h) == ~live[h] /\ \A g \in Handles : g < h => live[g]

NextExt(e) == ext.kind[e] = "none" /\ \A f \in Exts : f < e => ext.kind[f] # "none"

\* a call that involves a standard smart pointer
ExtCommit(op, dst, src, S) ==
  /\ CommitHandles(op, dst, src, "Base", S)
  /\ ext' = [kind |-> [e \in Exts |-> S.ext.kind[e]],
             ptr  |-> [e \in Exts |-> S.ext.ptr[e]]]
  /\ UNCHANGED <<trait, arr, abi>>

\* std::auto_ptr<T> e(new T(v)), std::unique_ptr<T> e(new T(v)),
\* std::shared_ptr<T> e(new T(v)), or the same without an object
ExtNew(e, kind, v, empty) ==
  /\ ~terminated /\ NextExt(e) /\ kind \in {"auto", "unique", "shared"}
  /\ empty => v = 0
  /\ ~empty => nalloc < MaxAddr
  /\ LET a == nalloc + 1
         N == IF empty THEN ExtMachine
              ELSE [ExtMachine EXCEPT !.nalloc = a,
                                      !.st = [@ EXCEPT ![a] = "live"],
                                      !.val = [@ EXCEPT ![a] = v]]
     IN ExtCommit("ext_new", 0, e,
                  [N EXCEPT !.ext.kind[e] = kind,
                            !.ext.ptr[e] = IF empty THEN Null ELSE a])

\* std::shared_ptr<T> e(f): e owns the object of f together with f
ExtShare(e, f) ==
  /\ ~terminated /\ NextExt(e) /\ ext.kind[f] = "shared"
  /\ ExtCommit("ext_share", 0, e,
               [ExtMachine EXCEPT !.ext.kind[e] = "shared",
                                  !.ext.ptr[e] = ext.ptr[f]])

\* std::weak_ptr<T> e(f)
ExtWeak(e, f) ==
  /\ ~terminated /\ NextExt(e) /\ ext.kind[f] = "shared"
  /\ ExtCommit("ext_weak", 0, e,
               [ExtMachine EXCEPT !.ext.kind[e] = "weak",
                                  !.ext.ptr[e] = ext.ptr[f]])

\* e goes out of scope
ExtDrop(e) ==
  /\ ~terminated /\ ext.kind[e] # "none"
  /\ ExtCommit("ext_dtor", 0, e, ext_dtor(ExtMachine, e))

\* value_ptr<T> h(e) and value_ptr<T> h(e, hid), e an auto_ptr
AutoCopy(h, e, explicit, hid, fails) ==
  /\ ~terminated /\ NextHandle(h) /\ ext.kind[e] = "auto"
  /\ ~explicit => hid = DefaultHandler
  /\ IF explicit
       THEN ExtCommit("auto_copy_ctor_h", h, e,
                      auto_copy_ctor_h(ExtMachine, h, e, hid, fails))
       ELSE ExtCommit("auto_copy_ctor", h, e,
                      auto_copy_ctor(ExtMachine, h, e, fails))

\* value_ptr<T> h(std::move(e)) and value_ptr<T> h(std::move(e), hid), e an
\* auto_ptr
AutoMove(h, e, explicit, hid) ==
  /\ ~terminated /\ NextHandle(h) /\ ext.kind[e] = "auto"
  /\ ~explicit => hid = DefaultHandler
  /\ IF explicit
       THEN ExtCommit("auto_move_ctor_h", h, e,
                      auto_move_ctor_h(ExtMachine, h, e, hid))
       ELSE ExtCommit("auto_move_ctor", h, e, auto_move_ctor(ExtMachine, h, e))

\* value_ptr<T> h(e) and value_ptr<T> h(e, hid), e a unique_ptr
UniqueCopy(h, e, explicit, hid, fails) ==
  /\ ~terminated /\ NextHandle(h) /\ ext.kind[e] = "unique"
  /\ ~explicit => hid = DefaultHandler
  /\ IF explicit
       THEN ExtCommit("unique_copy_ctor_h", h, e,
                      unique_copy_ctor_h(ExtMachine, h, e, hid, fails))
       ELSE ExtCommit("unique_copy_ctor", h, e,
                      unique_copy_ctor(ExtMachine, h, e, fails))

\* value_ptr<T> h(std::move(e)) and value_ptr<T> h(std::move(e), hid), e a
\* unique_ptr
UniqueMove(h, e, explicit, hid) ==
  /\ ~terminated /\ NextHandle(h) /\ ext.kind[e] = "unique"
  /\ ~explicit => hid = DefaultHandler
  /\ IF explicit
       THEN ExtCommit("unique_move_ctor_h", h, e,
                      unique_move_ctor_h(ExtMachine, h, e, hid))
       ELSE ExtCommit("unique_move_ctor", h, e,
                      unique_move_ctor(ExtMachine, h, e))

\* value_ptr<T> h(e) and value_ptr<T> h(e, hid), e a shared_ptr
SharedCopy(h, e, explicit, hid, fails) ==
  /\ ~terminated /\ NextHandle(h) /\ ext.kind[e] = "shared"
  /\ ~explicit => hid = DefaultHandler
  /\ IF explicit
       THEN ExtCommit("shared_copy_ctor_h", h, e,
                      shared_copy_ctor_h(ExtMachine, h, e, hid, fails))
       ELSE ExtCommit("shared_copy_ctor", h, e,
                      shared_copy_ctor(ExtMachine, h, e, fails))

\* value_ptr<T> h(e) and value_ptr<T> h(e, hid), e a weak_ptr
WeakCopy(h, e, explicit, hid, fails) ==
  /\ ~terminated /\ NextHandle(h) /\ ext.kind[e] = "weak"
  /\ ~explicit => hid = DefaultHandler
  /\ IF explicit
       THEN ExtCommit("weak_ctor_h", h, e,
                      weak_ctor_h(ExtMachine, h, e, hid, fails))
       ELSE ExtCommit("weak_ctor", h, e, weak_ctor(ExtMachine, h, e, fails))

\* the value_ptr objects the client makes from its standard smart pointers
ExtHandles == {1}

ExtNext ==
  \/ \E e \in Exts, kind \in ExtKinds, v \in Values, empty \in BOOLEAN :
       ExtNew(e, kind, v, empty)
  \/ \E e, f \in Exts : ExtShare(e, f)
  \/ \E e, f \in Exts : ExtWeak(e, f)
  \/ \E e \in Exts : ExtDrop(e)
  \/ \E h \in ExtHandles, e \in Exts, explicit, fails \in BOOLEAN,
        hid \in HandlerIds : AutoCopy(h, e, explicit, hid, fails)
  \/ \E h \in ExtHandles, e \in Exts, explicit \in BOOLEAN, hid \in HandlerIds :
       AutoMove(h, e, explicit, hid)
  \/ \E h \in ExtHandles, e \in Exts, explicit, fails \in BOOLEAN,
        hid \in HandlerIds : UniqueCopy(h, e, explicit, hid, fails)
  \/ \E h \in ExtHandles, e \in Exts, explicit \in BOOLEAN, hid \in HandlerIds :
       UniqueMove(h, e, explicit, hid)
  \/ \E h \in ExtHandles, e \in Exts, explicit, fails \in BOOLEAN,
        hid \in HandlerIds : SharedCopy(h, e, explicit, hid, fails)
  \/ \E h \in ExtHandles, e \in Exts, explicit, fails \in BOOLEAN,
        hid \in HandlerIds : WeakCopy(h, e, explicit, hid, fails)
  \/ \E h \in ExtHandles : Reset(h, Null)
  \/ \E h \in ExtHandles : Destruct(h)

ExtSpec == Init /\ [][ExtNext]_vars

\* ---- the Itanium ABI adapter: array cookies --------------------------------
WordBits   == 4      \* width of std::size_t in bits
MaxArrays  == 2      \* blocks the adapter is asked for

SizeofSizeT == 2     \* sizeof(std::size_t), in bytes

\* arithmetic on std::size_t is modulo 2^WordBits
Modulus == 2 ^ WordBits

\* the largest request operator new[] can serve; a larger one ends in
\* std::bad_alloc
HeapBytes == Modulus \div 2

\* the element types: sizeof(T), alignof(T) and __has_trivial_destructor(T)
ElemTypes ==
  {t \in [size : {1, 2, 4}, align : {1, 2, 4}, trivial : BOOLEAN] :
     t.align <= t.size}

\* Itanium::arrayCookieLen<T>():
\* __has_trivial_destructor(T) ? 0 : std::max(sizeof(std::size_t), alignof(T))
arrayCookieLen(T) ==
  IF T.trivial THEN 0
  ELSE IF SizeofSizeT >= T.align THEN SizeofSizeT ELSE T.align

\* Itanium::newArray<T>(n): new char[n * sizeof(T) + padding] + padding, and
\* the cookie n in the std::size_t before the address returned, if there is
\* padding; a cookie written beyond the block is undefined behaviour
Itanium_newArray(A, T, n) ==
  LET padding == arrayCookieLen(T)
      bytes == (((n * T.size) % Modulus) + padding) % Modulus
  IN IF bytes > HeapBytes
       THEN [A EXCEPT !.exc = TRUE]
       ELSE [A EXCEPT
               !.blk = Append(@, [T |-> T, n |-> n, bytes |-> bytes,
                                  off |-> padding,
                                  cookie |-> IF padding > 0 /\ bytes >= padding
                                               THEN n ELSE -1,
                                  freed |-> 0]),
               !.ret = padding,
               !.ub = @ \/ (padding > 0 /\ bytes < padding)]

\* Itanium::arraySize<T>(p): reinterpret_cast<std::size_t const *>(p)[-1]; g is
\* what the read comes upon where no cookie lies inside the block
Itanium_arraySize(A, b, g) ==
  LET B == A.blk[b] IN
  IF B.cookie >= 0 /\ B.off >= SizeofSizeT
    THEN [A EXCEPT !.ret = B.cookie]
    ELSE [A EXCEPT !.ret = g, !.ub = TRUE]

\* Itanium::delArray<T>(p): delete[] (p - arrayCookieLen<T>()); anything but
\* the start of a block that is still allocated is undefined behaviour
Itanium_delArray(A, b) ==
  LET B == A.blk[b]
      at == B.off - arrayCookieLen(B.T)
  IN IF at = 0 /\ B.freed = 0
       THEN [A EXCEPT !.blk[b].freed = 1, !.ret = at]
       ELSE [A EXCEPT !.ret = at, !.ub = TRUE]

AbiMachine == [abi EXCEPT !.exc = FALSE, !.ret = 0]

\* p = Itanium::newArray<T>(n)
NewArray(T, n) ==
  /\ ~abi.ub /\ Len(abi.blk) < MaxArrays
  /\ abi' = [Itanium_newArray(AbiMachine, T, n) EXCEPT
               !.op = "newArray", !.T = T, !.b = Len(abi.blk) + 1, !.n = n]
  /\ UNCHANGED <<hvars, trait, arr>>

\* Itanium::arraySize<T>(p), p from newArray and not yet given to delArray;
\* T has no trivial destructor (the static_assert of arraySize)
ArraySize(b, g) ==
  /\ ~abi.ub /\ b \in 1..Len(abi.blk)
  /\ abi.blk[b].freed = 0 /\ ~abi.blk[b].T.trivial
  /\ abi' = [Itanium_arraySize(AbiMachine, b, g) EXCEPT
               !.op = "arraySize", !.T = abi.blk[b].T, !.b = b,
               !.n = abi.blk[b].n]
  /\ g = 0 \/ abi'.ub
  /\ UNCHANGED <<hvars, trait, arr>>

\* Itanium::delArray<T>(p), p from newArray and not yet given to delArray
DelArray(b) ==
  /\ ~abi.ub /\ b \in 1..Len(abi.blk)
  /\ abi.blk[b].freed = 0
  /\ abi' = [Itanium_delArray(AbiMachine, b) EXCEPT
               !.op = "delArray", !.T = abi.blk[b].T, !.b = b,
               !.n = abi.blk[b].n]
  /\ UNCHANGED <<hvars, trait, arr>>

AbiNext ==
  \/ \E T \in ElemTypes, n \in 0..(Modulus - 1) : NewArray(T, n)
  \/ \E b \in 1..MaxArrays, g \in 0..(Modulus - 1) : ArraySize(b, g)
  \/ \E b \in 1..MaxArrays : DelArray(b)

AbiSpec == Init /\ [][AbiNext]_vars

\* ---- what the claims speak about ------------------------------------------
\* the handler calls of the last call of the client program
CallsOf(f) == {i \in 1..Len(last.calls) : last.calls[i].f = f}

\* how often the last call passed the address x to destroy
DestroysOf(x) ==
  Cardinality({i \in CallsOf("destroy") : last.calls[i].p = x})

\* the last call ran to its end (it did not end in std::terminate())
Completed(op) == last.op = op /\ ~terminated

\* h is in the state it had before the last call
SameHandle(h) == ptr[h] = last.pre.ptr[h] /\ hnd[h] = last.pre.hnd[h]

\* the pointee of h, if any, is the object it was before the last call
SamePointee(h) ==
  last.pre.ptr[h] # Null =>
    /\ st[last.pre.ptr[h]] = "live"
    /\ val[last.pre.ptr[h]] = last.pre.val[last.pre.ptr[h]]

\* x is an address that did not exist before the last call
Fresh(x) == x \in Addrs /\ x > last.pre.nalloc /\ st[x] = "live"

\* C1: no non-null address is held by two live handles at the same time (the
\* client hands the handles only objects it has just allocated, or nullptr).
C1_SingleOwner ==
  \A a, b \in Handles :
    (a # b /\ live[a] /\ live[b] /\ ptr[a] # Null) => ptr[a] # ptr[b]

C1_Witness ==
  /\ last.op = "move_assign"
  /\ \A h \in Handles : live[h] /\ ptr[h] # Null

\* C2: whatever the sequence of reset, release, assignment and destructor
\* calls, an address is passed to destroy at most once (no address is taken
\* a second time in this model, so the exception of the claim never applies).
C2_DestroyedAtMostOnce == \A x \in Addrs : dcount[x] <= 1

C2_Witness ==
  /\ last.op = "dtor"
  /\ \E x, y \in Addrs : x # y /\ dcount[x] = 1 /\ dcount[y] = 1

\* C3: copy construction of b from a non-null a gives b a different, non-null
\* address whose content equals a's at the copy; a keeps its pointer and its
\* pointee; and a mutation through a handle changes no other handle's pointee.
C3_CopyIndependence ==
  /\ (Completed("copy_ctor") /\ last.pre.ptr[last.src] # Null) =>
       /\ ptr[last.dst] # Null
       /\ ptr[last.dst] # ptr[last.src]
       /\ val[ptr[last.dst]] = last.pre.val[last.pre.ptr[last.src]]
       /\ ptr[last.src] = last.pre.ptr[last.src]
       /\ SamePointee(last.src)
  /\ last.op = "mutate" =>
       /\ val[ptr[last.dst]] = last.ret
       /\ \A a \in Handles \ {last.dst} : live[a] => SamePointee(a)

C3_Witness ==
  /\ last.op = "mutate"
  /\ \E a \in Handles \ {last.dst} :
       /\ live[a] /\ ptr[a] # Null
       /\ last.pre.val[ptr[a]] = last.pre.val[ptr[last.dst]]
       /\ val[ptr[a]] # val[ptr[last.dst]]

\* C4: move construction of b from a non-null a leaves a empty and gives b
\* exactly the address a held; neither replicate nor destroy is called.
C4_MoveConstruct ==
  (last.op = "move_ctor" /\ last.pre.ptr[last.src] # Null) =>
    /\ ptr[last.src] = Null
    /\ ptr[last.dst] = last.pre.ptr[last.src]
    /\ last.calls = << >>
    /\ nalloc = last.pre.nalloc
    /\ dcount = last.pre.dcount

C4_Witness ==
  /\ last.op = "move_ctor" /\ last.pre.ptr[last.src] # Null
  /\ live[last.dst] /\ ty[last.dst] # ty[last.src]
\* C5: after the copy assignment a = b of two distinct handles of one
\* instantiation, b has its pointer and its pointee as before, a holds a
\* freshly replicated address different from b's (nullptr if b is empty), and
\* the address a held before was passed to destroy exactly once.
C5_CopyAssign ==
  (Completed("copy_assign") /\ last.dst # last.src) =>
    /\ ptr[last.src] = last.pre.ptr[last.src]
    /\ SamePointee(last.src)
    /\ last.pre.ptr[last.src] = Null => ptr[last.dst] = Null
    /\ last.pre.ptr[last.src] # Null =>
         /\ Fresh(ptr[last.dst])
         /\ ptr[last.dst] # ptr[last.src]
         /\ val[ptr[last.dst]] = val[ptr[last.src]]
    /\ last.pre.ptr[last.dst] # Null =>
         /\ DestroysOf(last.pre.ptr[last.dst]) = 1
         /\ dcount[last.pre.ptr[last.dst]] = 1
         /\ st[last.pre.ptr[last.dst]] = "destroyed"

C5_Witness ==
  /\ Completed("copy_assign") /\ last.dst # last.src
  /\ last.pre.ptr[last.src] # Null /\ last.pre.ptr[last.dst] # Null

\* C6: the templated copy assignment a = b leaves b's pointer and handler as
\* they were, and gives a an independently replicated address (nullptr if b
\* is empty), never b's own address.
C6_TemplatedCopyAssign ==
  Completed("templated_copy_assign") =>
    /\ SameHandle(last.src)
    /\ last.pre.ptr[last.src] = Null => ptr[last.dst] = Null
    /\ last.pre.ptr[last.src] # Null =>
         /\ Fresh(ptr[last.dst])
         /\ ptr[last.dst] # last.pre.ptr[last.src]

\* C7: when replicate throws during a copy construction or a copy assignment,
\* the caller gets the exception (the program goes on), and the source and
\* the destination are in the state they had before.
C7_ReplicateFailureSurfaced ==
  (last.threw /\ last.op \in {"copy_ctor", "copy_assign", "templated_copy_assign"}) =>
    /\ ~terminated
    /\ SameHandle(last.src) /\ SamePointee(last.src)
    /\ live[last.dst] = last.pre.live[last.dst]
    /\ SameHandle(last.dst) /\ SamePointee(last.dst)

\* C8: the move assignment b = move(a) exchanges the two states: b has the
\* pointer and handler a had, a has those b had; replicate and destroy are not
\* called, so b's former address is still alive, held by a; it is destroyed
\* when a handle holding an address is reset, null-assigned or destroyed.
C8_MoveAssignExchanges ==
  /\ last.op = "move_assign" =>
       /\ ptr[last.dst] = last.pre.ptr[last.src]
       /\ hnd[last.dst] = last.pre.hnd[last.src]
       /\ ptr[last.src] = last.pre.ptr[last.dst]
       /\ hnd[last.src] = last.pre.hnd[last.dst]
       /\ last.calls = << >>
       /\ nalloc = last.pre.nalloc /\ dcount = last.pre.dcount
       /\ SamePointee(last.dst) /\ SamePointee(last.src)
  /\ (last.op \in {"dtor", "null_assign"} /\ last.pre.ptr[last.dst] # Null) =>
       /\ DestroysOf(last.pre.ptr[last.dst]) = 1
       /\ st[last.pre.ptr[last.dst]] = "destroyed"

C8_Witness ==
  /\ last.op = "move_assign" /\ last.dst # last.src
  /\ last.pre.ptr[last.dst] # Null /\ last.pre.ptr[last.src] # Null
  /\ last.pre.hnd[last.dst] # last.pre.hnd[last.src]

\* C9 as claimed: whenever an Owning handle is moved from into another handle,
\* by move construction or by move assignment, the source is Empty afterwards
\* and the destination is Owning with the source's former address.
C9_SourceAlwaysEmpty ==
  (/\ last.op \in {"move_ctor", "move_assign"}
   /\ last.dst # last.src /\ last.pre.ptr[last.src] # Null) =>
    /\ ptr[last.src] = Null
    /\ ptr[last.dst] = last.pre.ptr[last.src]

\* C9 as amended: whenever an Owning handle is moved from, the destination is
\* Owning with the source's former address; the source is Empty after a move
\* construction, and after a move assignment it holds what the destination
\* held, so it is Empty exactly when the destination was Empty.
C9_SourceHoldsDestinationsFormer ==
  (last.op \in {"move_ctor", "move_assign"} /\ last.pre.ptr[last.src] # Null) =>
    /\ ptr[last.dst] = last.pre.ptr[last.src]
    /\ last.op = "move_ctor" => ptr[last.src] = Null
    /\ last.op = "move_assign" =>
         /\ ptr[last.src] = last.pre.ptr[last.dst]
         /\ (ptr[last.src] = Null) = (last.pre.ptr[last.dst] = Null)

C9_Witness ==
  /\ last.op = "move_assign" /\ last.dst # last.src
  /\ last.pre.ptr[last.src] # Null /\ last.pre.ptr[last.dst] # Null
  /\ ptr[last.src] # Null

\* C10: release() returns the address the handle held, leaves the handle
\* empty and its handler as it was, and calls destroy zero times; an address
\* handed back by release() is never passed to destroy afterwards, whatever
\* is done with the handles.
C10_Release ==
  /\ last.op = "release" =>
       /\ last.ret = last.pre.ptr[last.dst]
       /\ ptr[last.dst] = Null
       /\ hnd[last.dst] = last.pre.hnd[last.dst]
       /\ last.calls = << >>
       /\ dcount = last.pre.dcount
  /\ \A x \in owned :
       /\ dcount[x] = 0 /\ st[x] = "live"
       /\ \A h \in Handles : live[h] => ptr[h] # x

C10_Witness ==
  /\ last.op = "dtor" /\ last.pre.ptr[last.dst] # Null
  /\ owned # {}

\* C11: reset(p) with p different from the held pointer passes the held
\* pointer to destroy exactly once (and nothing else to destroy) and leaves
\* the handle holding p; reset(p) with p equal to the held pointer, reset()
\* on an empty handle included, calls destroy zero times and changes nothing.
C11_Reset ==
  last.op = "reset" =>
    IF last.ret # last.pre.ptr[last.dst]
      THEN /\ last.calls = <<Call("destroy", last.pre.hnd[last.dst],
                                  last.pre.ptr[last.dst], Null)>>
           /\ ptr[last.dst] = last.ret
           /\ hnd[last.dst] = last.pre.hnd[last.dst]
           /\ last.pre.ptr[last.dst] # Null =>
                /\ st[last.pre.ptr[last.dst]] = "destroyed"
                /\ dcount[last.pre.ptr[last.dst]] = 1
           /\ \A x \in Addrs \ {last.pre.ptr[last.dst]} :
                dcount[x] = last.pre.dcount[x]
      ELSE /\ last.calls = << >>
           /\ SameHandle(last.dst) /\ SamePointee(last.dst)
           /\ dcount = last.pre.dcount
           /\ nalloc = last.pre.nalloc

C11_Witness ==
  /\ last.op = "reset"
  /\ last.pre.ptr[last.dst] # Null /\ last.ret # Null
  /\ last.ret # last.pre.ptr[last.dst]
  /\ ptr[last.dst] = last.ret

\* C12: h = nullptr and the destructor of h each have the effect of reset():
\* a handle holding x ends empty with x passed to destroy exactly once, and a
\* handle that is already empty (after an earlier reset() or release(), say)
\* makes no destroy call and destroys nothing.
C12_NullAssignAndDtorAreReset ==
  last.op \in {"null_assign", "dtor"} =>
    /\ ptr[last.dst] = Null
    /\ live[last.dst] = (last.op = "null_assign")
    /\ last.op = "null_assign" => hnd[last.dst] = last.pre.hnd[last.dst]
    /\ last.pre.ptr[last.dst] # Null =>
         /\ last.calls = <<Call("destroy", last.pre.hnd[last.dst],
                                last.pre.ptr[last.dst], Null)>>
         /\ st[last.pre.ptr[last.dst]] = "destroyed"
         /\ dcount[last.pre.ptr[last.dst]] = 1
    /\ last.pre.ptr[last.dst] = Null =>
         /\ last.calls = << >>
         /\ dcount = last.pre.dcount
    /\ \A x \in Addrs \ {last.pre.ptr[last.dst]} :
         dcount[x] = last.pre.dcount[x]

C12_Witness ==
  /\ last.op = "null_assign" /\ last.pre.ptr[last.dst] = Null
  /\ owned # {}
  /\ \E x \in Addrs : dcount[x] = 1

\* C13: in no state reachable during a reset, a null assignment or a
\* destruction does the pointer of a handle hold an address that was already
\* passed to destroy (get() never returns a destroyed address, not even right
\* after destroy has run).
C13_NeverHoldsDestroyed ==
  \A h \in Handles :
    (live[h] /\ ptr[h] # Null) => (dcount[ptr[h]] = 0 /\ st[ptr[h]] = "live")

\* C14: on every constructing path of value_ptr<T, H>, scalar or array, the
\* construction is rejected when the element type (T without its extent) is
\* polymorphic and H::slice_safe is false, and accepted when the handler is
\* clone-based (H::slice_safe is true).
C14_SliceGate ==
  trait.op = "value_ptr" =>
    /\ (trait.poly /\ ~trait.slice_safe) => ~trait.accepted
    /\ trait.slice_safe => trait.accepted

\* C16: is_cloneable<T> is true exactly when T is polymorphic and has a
\* (possibly inherited) const method clone that can be called without
\* arguments and returns R* with R = T or R a base of T and
\* sizeof(R) = sizeof(T); it is false in every other case.
C16_IsCloneableExactly ==
  trait.op = "is_cloneable" =>
    LET c == trait.cls IN
    trait.value = (/\ c.poly /\ c.decl # "none" /\ c.const /\ c.args = 0
                   /\ c.ret \in {"self", "ancestor"}
                   /\ sizeof(c, c.ret) = sizeof(c, "self"))

Objects(b) == SelectSeq(b.cells, LAMBDA c : c.k \in ElemClasses)

\* the last handler call returned
Returned(op) == arr.op = op /\ ~arr.exc /\ ~arr.term

\* the block the last handler call was given held objects of sizeof(T) only
ArrayOfT ==
  /\ arr.p # Null
  /\ \A j \in 1..Len(arr.pre[arr.p].cells) :
       arr.pre[arr.p].cells[j].k \in ElemClasses
       /\ sizeof_class(arr.pre[arr.p].cells[j].k) = sizeof_class("Base")

\* C15: a copy through a clone-based handler of a Base-typed handle preserves
\* the dynamic type: the replica of an object whose dynamic type is a class
\* derived from Base is of that class, for a scalar handle and for every
\* element of an array handle.
C15_DynamicTypePreserved ==
  (Returned("replicate") /\ arr.kind = "clone" /\ arr.p # Null) =>
    /\ ~arr.ub
    /\ arr.ret \in 1..Len(arr.blk)
    /\ LET src == Objects(arr.pre[arr.p])
           rep == Objects(arr.blk[arr.ret])
       IN /\ Len(rep) = Len(src)
          /\ \A i \in 1..Len(src) : rep[i].k = src[i].k

\* C18: for each default policy and each of T, T[] and T[N], replicate(nullptr)
\* returns nullptr without allocating or constructing anything, and
\* destroy(nullptr) runs no destructor, frees nothing and does not throw.
C18_NullHandling ==
  (arr.op \in {"replicate", "destroy"} /\ arr.p = Null) =>
    /\ arr.ret = Null
    /\ arr.ev = << >>
    /\ arr.blk = arr.pre
    /\ ~arr.exc /\ ~arr.term /\ ~arr.ub

C18_Witness ==
  /\ arr.op = "replicate" /\ arr.p = Null
  /\ arr.kind = "clone" /\ arr.shape = "T[N]"
  /\ Len(arr.blk) = MaxBlocks

\* C19: the copy of a T[] handle whose array has n elements (of sizeof(T))
\* allocates one block, for exactly n elements, and constructs exactly n
\* elements in it, element i from element i of the source, for n = 0, n = 1
\* and n > 1.
C19_ArrayReplicaCount ==
  (Returned("replicate") /\ arr.shape = "T[]" /\ ArrayOfT) =>
    LET n == arr.pre[arr.p].n
        r == arr.ret
    IN /\ ~arr.ub
       /\ r = Len(arr.pre) + 1 /\ Len(arr.blk) = r
       /\ arr.blk[r].n = n
       /\ Len(arr.blk[r].cells) = n * sizeof_class("Base")
       /\ Len(arr.ev) = n + 1
       /\ arr.ev[1] = <<"newArray", r, n>>
       /\ \A i \in 0..(n - 1) :
            /\ arr.ev[i + 2][1] = "new" /\ arr.ev[i + 2][2] = r
            /\ arr.ev[i + 2][3] = i
            /\ is_object(arr, r, i)
            /\ value_at(arr, r, i) = arr.pre[arr.p].cells[i + 1].v
       /\ arr.blk[arr.p] = arr.pre[arr.p]

C19_Witness ==
  /\ Returned("replicate") /\ arr.shape = "T[]" /\ ArrayOfT
  /\ arr.kind = "copy" /\ arr.pre[arr.p].n > 1

\* C20: default_destroy on an array of n elements (of sizeof(T)), no
\* destructor throwing, calls the destructor exactly once on each element, in
\* the order n-1, ..., 0, and frees the block exactly once, after the last
\* destructor call, for n = 0, n = 1 and n > 1.
C20_ArrayDestroyOrder ==
  (Returned("destroy") /\ arr.shape \in {"T[]", "T[N]"} /\ ArrayOfT) =>
    LET n == arr.pre[arr.p].n
    IN /\ ~arr.ub
       /\ arr.ev = [i \in 1..(n + 1) |->
                      IF i <= n THEN <<"~T", arr.p, n - i>>
                                ELSE <<"delArray", arr.p>>]
       /\ arr.blk[arr.p].freed = 1
       /\ Objects(arr.blk[arr.p]) = << >>

C20_Witness ==
  /\ Returned("destroy") /\ arr.shape = "T[]" /\ ArrayOfT
  /\ arr.pre[arr.p].n > 1 /\ arr.blk[arr.p].freed = 1

\* the events of the last handler call that are of the kind e
EventsOf(e) == SelectSeq(arr.ev, LAMBDA x : x[1] = e)

\* C21: when the construction of the k-th element of the replica (counted from
\* one; k - 1 elements were constructed before it) throws during an array
\* replication, by copy or by clone, exactly those k - 1 elements are
\* destructed, in reverse order, the replica block is freed exactly once, the
\* exception reaches the caller, no destructor runs on a slot that was never
\* constructed and the source array is unchanged.
C21_ReplicaRollback ==
  (/\ arr.op = "replicate" /\ arr.shape \in {"T[]", "T[N]"} /\ ArrayOfT
   /\ arr.exc /\ ~arr.term /\ arr.ev # << >>) =>
    LET n == arr.pre[arr.p].n
        r == Len(arr.pre) + 1
        c == Len(EventsOf("new"))
    IN /\ ~arr.ub
       /\ c < n
       /\ arr.ev = [i \in 1..(2 * c + 2) |->
                      IF i = 1 THEN <<"newArray", r, n>>
                      ELSE IF i <= c + 1
                        THEN <<"new", r, i - 2, arr.ev[i][4]>>
                      ELSE IF i <= 2 * c + 1
                        THEN <<"~T", r, 2 * c + 1 - i>>
                      ELSE <<"delArray", r>>]
       /\ arr.blk[r].freed = 1
       /\ Objects(arr.blk[r]) = << >>
       /\ arr.ret = Null
       /\ arr.blk[arr.p] = arr.pre[arr.p]

C21_Witness ==
  /\ arr.op = "replicate" /\ arr.shape = "T[]" /\ ArrayOfT
  /\ arr.exc /\ ~arr.term /\ arr.kind = "clone"
  /\ Len(EventsOf("new")) = 2 /\ Len(EventsOf("~T")) = 2
  /\ arr.pre[arr.p].n > 3

\* C22: when the destructor of an element throws while default_destroy tears
\* down an array of n elements, every other element is destructed all the
\* same, a second throwing destructor included, the block is freed exactly
\* once and the exception is raised again after the cleanup.
C22_DestroyCleanupCompletes ==
  (/\ arr.op = "destroy" /\ arr.shape \in {"T[]", "T[N]"} /\ ArrayOfT
   /\ (arr.exc \/ arr.term)) =>
    LET n == arr.pre[arr.p].n
    IN /\ ~arr.term
       /\ arr.exc
       /\ arr.ev = [i \in 1..(n + 1) |->
                      IF i <= n THEN <<"~T", arr.p, n - i>>
                                ELSE <<"delArray", arr.p>>]
       /\ arr.blk[arr.p].freed = 1

\* the standard smart pointers that own an object
Owning(E) ==
  {e \in Exts : E.kind[e] \in {"auto", "unique", "shared"} /\ E.ptr[e] # Null}

\* C23: the copy construction of a value_ptr from a unique_ptr or a shared_ptr
\* leaves every standard smart pointer as it was (the source and its
\* co-owners own the same object, which is untouched) and gives the value_ptr
\* a new object, a replica; and no call on a value_ptr ever destroys, or makes
\* a value_ptr hold, an object that a standard smart pointer owns.
C23_ExternalCopyLeavesSource ==
  /\ (/\ ~terminated
      /\ last.op \in {"unique_copy_ctor", "unique_copy_ctor_h",
                       "shared_copy_ctor", "shared_copy_ctor_h"}
      /\ last.pre.ext.ptr[last.src] # Null) =>
       LET x == last.pre.ext.ptr[last.src] IN
       /\ ext = last.pre.ext
       /\ st[x] = "live" /\ val[x] = last.pre.val[x]
       /\ live[last.dst] /\ Fresh(ptr[last.dst]) /\ ptr[last.dst] # x
       /\ val[ptr[last.dst]] = val[x]
  /\ \A e \in Owning(ext) :
       /\ st[ext.ptr[e]] = "live"
       /\ \A h \in Handles : live[h] => ptr[h] # ext.ptr[e]
  /\ \A i \in CallsOf("destroy") :
       \A e \in Owning(last.pre.ext) : last.calls[i].p # last.pre.ext.ptr[e]

C23_Witness ==
  /\ ~terminated /\ last.op = "shared_copy_ctor"
  /\ \A e \in Exts : ext.kind[e] = "shared" /\ ext.ptr[e] = ext.ptr[last.src]
  /\ ext.ptr[last.src] # Null
  /\ Fresh(ptr[last.dst])

\* C24: a value_ptr move-constructed from a unique_ptr without a handler of
\* its own destroys with the deleter of the unique_ptr: that deleter is what
\* the value_ptr holds as its destruction policy.
C24_InheritsDeleter ==
  (~terminated /\ last.op = "unique_move_ctor") =>
    get_handler(Machine, last.dst) = get_deleter(ExtMachine, last.src)

\* C25: the construction of a value_ptr from a weak_ptr leaves every standard
\* smart pointer as it was (the strong owners of the object are the same as
\* before); if the weak_ptr has expired the value_ptr is empty and nothing
\* was allocated, otherwise the value_ptr holds a new object, a replica of
\* the shared one.
C25_FromWeak ==
  (~terminated /\ last.op \in {"weak_ctor", "weak_ctor_h"}) =>
    LET x == last.pre.ext.ptr[last.src]
        alive == \E e \in Owning(last.pre.ext) :
                   last.pre.ext.kind[e] = "shared" /\ last.pre.ext.ptr[e] = x
    IN /\ ext = last.pre.ext
       /\ live[last.dst]
       /\ IF alive
            THEN /\ Fresh(ptr[last.dst]) /\ ptr[last.dst] # x
                 /\ st[x] = "live" /\ val[x] = last.pre.val[x]
                 /\ val[ptr[last.dst]] = val[x]
            ELSE /\ ptr[last.dst] = Null
                 /\ nalloc = last.pre.nalloc
                 /\ st = [a \in Addrs |-> IF a <= last.pre.nalloc
                                            THEN st[a] ELSE "unused"]

C25_Witness ==
  /\ ~terminated /\ last.op = "weak_ctor"
  /\ last.pre.ext.ptr[last.src] # Null
  /\ st[last.pre.ext.ptr[last.src]] = "destroyed"
  /\ live[last.dst] /\ ptr[last.dst] = Null

\* C28: a constructor that replicates the object of an auto_ptr, a
\* unique_ptr, a shared_ptr or a weak_ptr and is given a handler replicates
\* with that handler, the one the value_ptr holds afterwards.
C28_ReplicatesWithGivenHandler ==
  (/\ ~terminated
   /\ last.op \in {"auto_copy_ctor_h", "unique_copy_ctor_h",
                    "shared_copy_ctor_h", "weak_ctor_h"}) =>
    /\ CallsOf("replicate") # {}
    /\ \A i \in CallsOf("replicate") : last.calls[i].h = hnd[last.dst]

\* C26: for an element type with a non-trivial destructor and every n,
\* newArray(n) returns the address arrayCookieLen bytes after the start of the
\* block it obtained, arraySize of that address is n as long as the block is
\* not freed, and delArray of that address releases the start of that block.
C26_CookieRoundTrip ==
  (abi.op # "none" /\ ~abi.exc /\ ~abi.T.trivial) =>
    LET B == abi.blk[abi.b] IN
    /\ ~abi.ub
    /\ abi.op = "newArray" =>
         abi.ret = arrayCookieLen(abi.T) /\ B.freed = 0 /\ B.cookie = abi.n
    /\ abi.op = "arraySize" => abi.ret = B.n
    /\ abi.op = "delArray" => abi.ret = 0 /\ B.freed = 1

\* C27: newArray(n) never obtains a block of fewer than
\* n * sizeof(T) + arrayCookieLen bytes; when that number is not representable
\* in std::size_t the call ends in an allocation failure.
C27_NoWrappedAllocation ==
  abi.op = "newArray" =>
    LET needed == abi.n * abi.T.size + arrayCookieLen(abi.T)
    IN IF needed >= Modulus
         THEN abi.exc
         ELSE abi.exc \/ abi.blk[abi.b].bytes >= needed

\* C29: once every value_ptr is destroyed, every address that a handle ever
\* owned (every address allocated: the client hands each new object to a
\* handle, and replicas are made for handles only) and that release() did not
\* hand back to the caller has been passed to destroy exactly once.
C29_NoLeak ==
  (~terminated /\ \A h \in Handles : ~live[h]) =>
    \A x \in 1..nalloc :
      x \notin owned => dcount[x] = 1 /\ st[x] = "destroyed"

C29_Witness ==
  /\ ~terminated /\ \A h \in Handles : ~live[h]
  /\ nalloc = MaxAddr /\ owned # {}
  /\ \E x \in Addrs : dcount[x] = 1
  /\ last.op = "dtor"

\* C30: after a = a and after a = std::move(a) the handle holds no destroyed
\* address and no address was passed to destroy twice; a handle that held an
\* object holds one of equal content, an empty handle is empty.
C30_SelfAssign ==
  (last.op \in {"copy_assign", "move_assign"} /\ last.dst = last.src) =>
    LET a == last.dst
        old == last.pre.ptr[a]
    IN /\ ptr[a] # Null => st[ptr[a]] = "live"
       /\ \A x \in Addrs : DestroysOf(x) <= 1 /\ dcount[x] <= 1
       /\ hnd[a] = last.pre.hnd[a]
       /\ old = Null => ptr[a] = Null
       /\ old # Null => ptr[a] # Null /\ val[ptr[a]] = last.pre.val[old]
       /\ last.op = "move_assign" => ptr[a] = old /\ last.calls = << >>

C30_Witness ==
  /\ ~terminated /\ last.op = "copy_assign" /\ last.dst = last.src
  /\ last.pre.ptr[last.dst] # Null
  /\ Fresh(ptr[last.dst])
  /\ st[last.pre.ptr[last.dst]] = "destroyed"
====
